---- MODULE Spec2Model ----
(***************************************************************************)
(* A model of the cedict package (src/cedict.go): the lazy-population      *)
(* lifecycle of the singleton Dict, the format codec (Parse, Save,          *)
(* Entry.Marshal, Entry.Unmarshal), the tone codec (PinyinTones,            *)
(* PinyinToneNums), the lookups and levenshtein.                            *)
(*                                                                         *)
(* Strings are sequences of characters; a character is a one-element name  *)
(* such as "a" or "a1" (the letter a with the first tone mark).             *)
(***************************************************************************)
EXTENDS Integers, Sequences, FiniteSets, TLC

\* ------------------------------------------------------------------ bounds

\* Number of goroutines that call New() and the Dict's methods.
NCallers == 2
\* Largest number of GetByHanzi probes one HanziToPinyin call makes.
MaxProbes == 1

\* Longest string given to levenshtein, in characters.
LevMaxLen == 3
\* Longest string given to PinyinTones and PinyinToneNums, in characters.
ToneMaxLen == 4
\* Longest query given to GetByPinyin, in characters.
PinMaxLen == 3
\* Most entries of the index GetByPinyin searches.
PinMaxIndex == 2
\* The lines of a text given to Parse are at most this many.
MaxLines == 3
\* Longest tail of a query given to GetByMeaning, in characters.
MeanMaxLen == 2
\* Most entries of the index GetByMeaning searches.
MeanMaxIndex == 2
\* The indexes of the result limit hold up to this many entries more than
\* MaxResults.
LimitExtra == 1
\* Longest string given to HanziToPinyin, in characters.
ScanMaxLen == 3
\* Most entries of the index HanziToPinyin searches.
ScanMaxIndex == 2

\* ------------------------------------------------- lifecycle: the state

VARIABLES
    loadOnce,     \* sync.Once of New: "idle", "running" or "done"
    instance,     \* the package variable instance: 0 is nil, else a Dict id
    nConstructed, \* how many times New's closure called newDict()
    nTasks,       \* how many times New's closure ran "go instance.lazyLoad()"
    ready,        \* d.ready is closed
    closes,       \* how many times close(d.ready) ran
    populated,    \* how many times lazyLoad assigned d.e, d.md and d.header
    err,          \* d.err
    mutex,        \* d.mutex: the goroutine holding it, or NoProc
    pc,           \* where each goroutine stands
    probes,       \* GetByHanzi probes a running HanziToPinyin has yet to finish
    got,          \* the Dict the caller's last New() returned (0: none yet)
    firstErr,     \* history: the first population failure
    retried       \* history: a fetch started after a population had failed

lifeVars == <<loadOnce, instance, nConstructed, nTasks, ready, closes,
              populated, err, mutex, pc, probes, got,
              firstErr, retried>>

\* The inputs and the result of the function a codec or lookup specification
\* applies; the lifecycle leaves them alone.
VARIABLES args, result

pureVars == <<args, result>>

vars == <<lifeVars, pureVars>>

\* No function applied yet.
NoResult == [done |-> FALSE]

\* The background goroutine started by New.
BG == 0
Callers == 1..NCallers
Procs == {BG} \cup Callers
NoProc == -1

\* Download fails (a transport fault, a bad status, a gzip fault: lazyLoad
\* treats them alike) with an error of its own; Parse fails with another.
DownloadErrs == {"download"}
ParseErrs == {"parse"}

LifeInit ==
    /\ loadOnce = "idle"
    /\ instance = 0
    /\ nConstructed = 0
    /\ nTasks = 0
    /\ ready = FALSE
    /\ closes = 0
    /\ populated = 0
    /\ err = "nil"
    /\ mutex = NoProc
    /\ pc = [p \in Procs |-> IF p = BG THEN "off" ELSE "start"]
    /\ probes = [p \in Callers |-> 0]
    /\ got = [p \in Callers |-> 0]
    /\ firstErr = "nil"
    /\ retried = FALSE

\* ------------------------------------------------------ lifecycle: New

\* A caller enters New(), first or later.
NewCall(p) ==
    /\ pc[p] \in {"start", "have"}
    /\ pc' = [pc EXCEPT ![p] = "once"]
    /\ UNCHANGED <<loadOnce, instance, nConstructed, nTasks, ready, closes,
                   populated, err, mutex, probes, got,
                   firstErr, retried>>

\* loadOnce.Do that tests without claiming: several callers run the closure.
OnceDoFirstUnclaimed(p) ==
    /\ pc[p] = "once"
    /\ loadOnce = "idle"
    /\ pc' = [pc EXCEPT ![p] = "construct"]
    /\ UNCHANGED <<loadOnce, instance, nConstructed, nTasks, ready, closes,
                   populated, err, mutex, probes, got,
                   firstErr, retried>>

\* loadOnce.Do, the winner: it alone runs the closure; the others wait.
OnceDoFirst(p) ==
    /\ pc[p] = "once"
    /\ loadOnce = "idle"
    /\ loadOnce' = "running"
    /\ pc' = [pc EXCEPT ![p] = "construct"]
    /\ UNCHANGED <<instance, nConstructed, nTasks, ready, closes,
                   populated, err, mutex, probes, got,
                   firstErr, retried>>

\* The closure of New: instance = newDict(); go instance.lazyLoad(); then
\* Do returns and New returns instance.
NewConstruct(p) ==
    /\ pc[p] = "construct"
    /\ instance' = nConstructed + 1
    /\ nConstructed' = nConstructed + 1
    /\ nTasks' = nTasks + 1
    /\ loadOnce' = "done"
    /\ pc' = [pc EXCEPT ![p] = "have",
                        ![BG] = IF pc[BG] = "off" THEN "lock" ELSE pc[BG]]
    /\ got' = [got EXCEPT ![p] = instance']
    /\ UNCHANGED <<ready, closes, populated, err, mutex, probes,
                   firstErr, retried>>

\* loadOnce.Do, a loser or a later call: it returns once the closure is done,
\* and New returns instance.
OnceDoReturn(p) ==
    /\ pc[p] = "once"
    /\ loadOnce = "done"
    /\ pc' = [pc EXCEPT ![p] = "have"]
    /\ got' = [got EXCEPT ![p] = instance]
    /\ UNCHANGED <<loadOnce, instance, nConstructed, nTasks, ready, closes,
                   populated, err, mutex, probes,
                   firstErr, retried>>

\* ------------------------------------------------- lifecycle: lazyLoad

\* Where lazyLoad returns to: the background goroutine ends, a GetByHanzi
\* probe of HanziToPinyin scans d.e, any other method runs its body.
AfterLazyLoad(p) ==
    IF p = BG THEN "end" ELSE IF probes[p] > 0 THEN "probe" ELSE "body"

\* A caller that holds the Dict calls one of its methods (Err, Metadata,
\* DefaultFilename, Save, GetByHanzi, GetAllByHanzi, GetByPinyin,
\* GetByMeaning, HanziToPinyin): each starts with d.lazyLoad().  Which
\* method it is plays no part before lazyLoad has returned, so the body
\* actions below choose it.
StartCall(p) ==
    /\ pc[p] = "have"
    /\ pc' = [pc EXCEPT ![p] = "lock"]
    /\ UNCHANGED <<loadOnce, instance, nConstructed, nTasks, ready, closes,
                   populated, err, mutex, probes, got,
                   firstErr, retried>>

\* lazyLoad without the isReady test: every pass fetches and parses.
LLLockNoReadyTest(p) ==
    /\ pc[p] = "lock"
    /\ mutex = NoProc
    /\ mutex' = p
    /\ pc' = [pc EXCEPT ![p] = "download"]
    /\ UNCHANGED <<loadOnce, instance, nConstructed, nTasks, ready, closes,
                   populated, err, probes, got,
                   firstErr, retried>>

\* d.mutex.Lock() and the isReady test; when the Dict is ready the deferred
\* Unlock runs at once and lazyLoad returns.
LLLock(p) ==
    /\ pc[p] = "lock"
    /\ mutex = NoProc
    /\ IF ready
         THEN /\ mutex' = NoProc
              /\ pc' = [pc EXCEPT ![p] = AfterLazyLoad(p)]
         ELSE /\ mutex' = p
              /\ pc' = [pc EXCEPT ![p] = "download"]
    /\ UNCHANGED <<loadOnce, instance, nConstructed, nTasks, ready, closes,
                   populated, err, probes, got,
                   firstErr, retried>>

\* Download() succeeds.
LLDownloadOk(p) ==
    /\ pc[p] = "download"
    /\ retried' = (retried \/ firstErr # "nil")
    /\ pc' = [pc EXCEPT ![p] = "parse"]
    /\ UNCHANGED <<loadOnce, instance, nConstructed, nTasks, ready, closes,
                   populated, err, mutex, probes, got,
                   firstErr>>

\* Download() fails and lazyLoad returns without the deferred Unlock.
LLDownloadFailNoUnlock(p) ==
    /\ pc[p] = "download"
    /\ \E e \in DownloadErrs :
         /\ err' = e
         /\ firstErr' = IF firstErr = "nil" THEN e ELSE firstErr
    /\ retried' = (retried \/ firstErr # "nil")
    /\ pc' = [pc EXCEPT ![p] = AfterLazyLoad(p)]
    /\ UNCHANGED <<loadOnce, instance, nConstructed, nTasks, ready, closes,
                   populated, mutex, probes, got>>

\* Download() fails: d.err is set, the deferred Unlock runs and lazyLoad
\* returns, the Dict not ready.
LLDownloadFail(p) ==
    /\ pc[p] = "download"
    /\ \E e \in DownloadErrs :
         /\ err' = e
         /\ firstErr' = IF firstErr = "nil" THEN e ELSE firstErr
    /\ retried' = (retried \/ firstErr # "nil")
    /\ mutex' = NoProc
    /\ pc' = [pc EXCEPT ![p] = AfterLazyLoad(p)]
    /\ UNCHANGED <<loadOnce, instance, nConstructed, nTasks, ready, closes,
                   populated, probes, got>>

\* setReady: close(d.ready) unless it is closed already.
SetReady ==
    /\ ready' = TRUE
    /\ closes' = IF ready THEN closes ELSE closes + 1

\* Parse(r) succeeds: the fields are populated, setReady closes d.ready, the
\* deferred Unlock runs and lazyLoad returns.
LLParseOk(p) ==
    /\ pc[p] = "parse"
    /\ populated' = populated + 1
    /\ SetReady
    /\ mutex' = NoProc
    /\ pc' = [pc EXCEPT ![p] = AfterLazyLoad(p)]
    /\ UNCHANGED <<loadOnce, instance, nConstructed, nTasks, err,
                   probes, got, firstErr, retried>>

\* Parse(r) fails: d.err is set, the deferred Unlock runs and lazyLoad
\* returns, the Dict not ready.
LLParseFail(p) ==
    /\ pc[p] = "parse"
    /\ \E e \in ParseErrs :
         /\ err' = e
         /\ firstErr' = IF firstErr = "nil" THEN e ELSE firstErr
    /\ mutex' = NoProc
    /\ pc' = [pc EXCEPT ![p] = AfterLazyLoad(p)]
    /\ UNCHANGED <<loadOnce, instance, nConstructed, nTasks, ready, closes,
                   populated, probes, got, retried>>

\* --------------------------------------------- lifecycle: method bodies

\* Err returns d.err.  Metadata, DefaultFilename and the lookups read d.md
\* or d.e and return.  Save opens and truncates its file, writes d.header
\* and d.e and returns.
MethodBody(p) ==
    /\ pc[p] = "body"
    /\ pc' = [pc EXCEPT ![p] = "have"]
    /\ UNCHANGED <<loadOnce, instance, nConstructed, nTasks, ready, closes,
                   populated, err, mutex, probes, got,
                   firstErr, retried>>

\* HanziToPinyin after its own lazyLoad: the input decides how many
\* GetByHanzi probes the scan makes (none for an empty or non-Han input,
\* and then it returns); each probe, d.GetByHanzi(han), runs lazyLoad again.
H2PBody(p) ==
    /\ pc[p] = "body"
    /\ \E n \in 0..MaxProbes :
         /\ probes' = [probes EXCEPT ![p] = n]
         /\ pc' = [pc EXCEPT ![p] = IF n = 0 THEN "have" ELSE "lock"]
    /\ UNCHANGED <<loadOnce, instance, nConstructed, nTasks, ready, closes,
                   populated, err, mutex, got, firstErr, retried>>

\* GetByHanzi inside HanziToPinyin: it scans d.e and returns to the scan
\* loop, which makes its next probe or returns.
H2PProbe(p) ==
    /\ pc[p] = "probe"
    /\ probes' = [probes EXCEPT ![p] = probes[p] - 1]
    /\ pc' = [pc EXCEPT ![p] = IF probes[p] = 1 THEN "have" ELSE "lock"]
    /\ UNCHANGED <<loadOnce, instance, nConstructed, nTasks, ready, closes,
                   populated, err, mutex, got, firstErr, retried>>

LifeNext ==
    \/ \E p \in Callers : NewCall(p)
    \/ \E p \in Callers : OnceDoFirst(p)
    \/ \E p \in Callers : NewConstruct(p)
    \/ \E p \in Callers : OnceDoReturn(p)
    \/ \E p \in Callers : StartCall(p)
    \/ \E p \in Procs : LLLock(p)
    \/ \E p \in Procs : LLDownloadOk(p)
    \/ \E p \in Procs : LLDownloadFail(p)
    \/ \E p \in Procs : LLParseOk(p)
    \/ \E p \in Procs : LLParseFail(p)
    \/ \E p \in Callers : MethodBody(p)
    \/ \E p \in Callers : H2PBody(p)
    \/ \E p \in Callers : H2PProbe(p)

PureIdle ==
    /\ args = <<>>
    /\ result = NoResult

Init == LifeInit /\ PureIdle
Next == LifeNext /\ UNCHANGED pureVars
Spec == Init /\ [][Next]_vars

\* The steps of goroutine p that the Go scheduler runs once they can run:
\* everything but the caller's own decision to call New or a method, and
\* but the acquisition of the mutex.
Progress(p) ==
    /\ \/ (p \in Callers /\ OnceDoFirst(p))
       \/ (p \in Callers /\ NewConstruct(p))
       \/ (p \in Callers /\ OnceDoReturn(p))
       \/ LLDownloadOk(p)
       \/ LLDownloadFail(p)
       \/ LLParseOk(p)
       \/ LLParseFail(p)
       \/ (p \in Callers /\ MethodBody(p))
       \/ (p \in Callers /\ H2PBody(p))
       \/ (p \in Callers /\ H2PProbe(p))
    /\ UNCHANGED pureVars

\* d.mutex.Lock() by goroutine p.
Acquire(p) == LLLock(p) /\ UNCHANGED pureVars

\* Every fetch and parse attempt terminates and a runnable goroutine runs
\* (weak fairness); sync.Mutex hands the lock to a goroutine that has waited
\* for it (its starvation mode), so a waiting caller is not passed over
\* forever (strong fairness of the callers' Lock).
LiveSpec ==
    /\ Init
    /\ [][Next]_vars
    /\ \A p \in Procs : WF_vars(Progress(p))
    /\ WF_vars(Acquire(BG))
    /\ \A p \in Callers : SF_vars(Acquire(p))

\* ------------------------------------------------------------ strings

\* The Unicode code point of each character of the model's alphabets.
CodePoint(c) ==
    CASE c = "LF" -> 10
      [] c = "CR" -> 13
      [] c = " " -> 32
      [] c = "!" -> 33
      [] c = "#" -> 35
      [] c = "-" -> 45
      [] c = "/" -> 47
      [] c = "0" -> 48
      [] c = "1" -> 49
      [] c = "2" -> 50
      [] c = "3" -> 51
      [] c = "4" -> 52
      [] c = "5" -> 53
      [] c = "6" -> 54
      [] c = ":" -> 58
      [] c = "=" -> 61
      [] c = "A" -> 65
      [] c = "B" -> 66
      [] c = "C" -> 67
      [] c = "E" -> 69
      [] c = "M" -> 77
      [] c = "O" -> 79
      [] c = "T" -> 84
      [] c = "Z" -> 90
      [] c = "[" -> 91
      [] c = "]" -> 93
      [] c = "a" -> 97
      [] c = "c" -> 99
      [] c = "e" -> 101
      [] c = "g" -> 103
      [] c = "i" -> 105
      [] c = "m" -> 109
      [] c = "n" -> 110
      [] c = "o" -> 111
      [] c = "p" -> 112
      [] c = "r" -> 114
      [] c = "s" -> 115
      [] c = "t" -> 116
      [] c = "u" -> 117
      [] c = "v" -> 118
      [] c = "w" -> 119
      [] c = "A4" -> 192
      [] c = "A2" -> 193
      [] c = "E4" -> 200
      [] c = "E2" -> 201
      [] c = "O4" -> 210
      [] c = "O2" -> 211
      [] c = "a4" -> 224
      [] c = "a2" -> 225
      [] c = "e4" -> 232
      [] c = "e2" -> 233
      [] c = "i4" -> 236
      [] c = "i2" -> 237
      [] c = "o4" -> 242
      [] c = "o2" -> 243
      [] c = "u4" -> 249
      [] c = "u2" -> 250
      [] c = "u0" -> 252
      [] c = "A1" -> 256
      [] c = "a1" -> 257
      [] c = "E1" -> 274
      [] c = "e1" -> 275
      [] c = "E3" -> 282
      [] c = "e3" -> 283
      [] c = "i1" -> 299
      [] c = "O1" -> 332
      [] c = "o1" -> 333
      [] c = "u1" -> 363
      [] c = "A3" -> 461
      [] c = "a3" -> 462
      [] c = "i3" -> 464
      [] c = "O3" -> 465
      [] c = "o3" -> 466
      [] c = "u3" -> 468
      [] c = "u01" -> 470
      [] c = "u02" -> 472
      [] c = "u03" -> 474
      [] c = "u04" -> 476
      [] c = "+" -> 43
      [] c = "b" -> 98
      [] c = "d" -> 100
      [] c = "f" -> 102
      [] c = "h" -> 104
      [] c = "l" -> 108
      [] c = "x" -> 120
      [] c = "?" -> 63
      [] c = "U0" -> 220
      [] c = "z" -> 122
      [] c = "grave" -> 768
      [] c = "acute" -> 769
      [] c = "macron" -> 772
      [] c = "diaeresis" -> 776
      [] c = "caron" -> 780
      [] c = "zhong" -> 20013
      [] c = "wen" -> 25991
      [] c = "fullq" -> 65311
      [] c = "FFFD" -> 65533

\* The length of the character's UTF-8 encoding, in bytes.
Utf8Len(c) ==
    IF CodePoint(c) < 128 THEN 1
    ELSE IF CodePoint(c) < 2048 THEN 2
    ELSE IF CodePoint(c) < 65536 THEN 3 ELSE 4

\* len(s) of a Go string: its length in bytes.
RECURSIVE ByteLen(_)
ByteLen(s) == IF s = <<>> THEN 0 ELSE Utf8Len(Head(s)) + ByteLen(Tail(s))

\* The strings of at most n characters over an alphabet.
Strs(alphabet, n) == UNION {[1..k -> alphabet] : k \in 0..n}

\* ------------------------------------------------- string functions

\* strings.Index for a one-character separator: the 0-based index of its
\* first occurrence in s, or -1.
RECURSIVE IndexFrom(_, _, _)
IndexFrom(s, c, k) ==
    IF k > Len(s) THEN -1
    ELSE IF s[k] = c THEN k - 1 ELSE IndexFrom(s, c, k + 1)

Index(s, c) == IndexFrom(s, c, 1)

\* strings.IndexAny: the 0-based index of the first character of s that is
\* in the set, or -1.
RECURSIVE IndexAnyFrom(_, _, _)
IndexAnyFrom(s, set, k) ==
    IF k > Len(s) THEN -1
    ELSE IF s[k] \in set THEN k - 1 ELSE IndexAnyFrom(s, set, k + 1)

IndexAny(s, set) == IndexAnyFrom(s, set, 1)

\* strings.Split(s, sep) for a one-character separator: the pieces between
\* the separators, empty pieces included.
RECURSIVE Split(_, _)
Split(s, sep) ==
    LET i == Index(s, sep)
    IN  IF i < 0 THEN <<s>>
        ELSE <<SubSeq(s, 1, i)>> \o Split(SubSeq(s, i + 2, Len(s)), sep)

\* strings.Join(parts, sep).
RECURSIVE Join(_, _)
Join(parts, sep) ==
    IF parts = <<>> THEN <<>>
    ELSE IF Len(parts) = 1 THEN parts[1]
    ELSE parts[1] \o sep \o Join(Tail(parts), sep)

\* White space as unicode.IsSpace sees the model's characters.
Spaces == {" ", "CR", "LF"}

RECURSIVE TrimLeft(_)
TrimLeft(s) ==
    IF s # <<>> /\ Head(s) \in Spaces THEN TrimLeft(Tail(s)) ELSE s

RECURSIVE TrimRight(_)
TrimRight(s) ==
    IF s # <<>> /\ s[Len(s)] \in Spaces
      THEN TrimRight(SubSeq(s, 1, Len(s) - 1)) ELSE s

\* strings.TrimSpace.
TrimSpace(s) == TrimRight(TrimLeft(s))

\* strings.ReplaceAll(s, "u:", "ü"), ü being the character "u0".
RECURSIVE ReplaceUColon(_)
ReplaceUColon(s) ==
    IF Len(s) < 2 THEN s
    ELSE IF s[1] = "u" /\ s[2] = ":"
      THEN <<"u0">> \o ReplaceUColon(SubSeq(s, 3, Len(s)))
      ELSE <<s[1]>> \o ReplaceUColon(Tail(s))

\* strings.ReplaceAll(s, " ", "").
RECURSIVE RemoveSpaces(_)
RemoveSpaces(s) ==
    IF s = <<>> THEN <<>>
    ELSE (IF Head(s) = " " THEN <<>> ELSE <<Head(s)>>) \o RemoveSpaces(Tail(s))

\* The decimal digits (unicode.IsDigit on the model's characters).
Digits == {"0", "1", "2", "3", "4", "5", "6"}

\* The combining marks (unicode.Mn) of the model's characters.
Marks == {"grave", "acute", "macron", "diaeresis", "caron"}

\* The canonical decomposition of a character into a base and a mark; a
\* character without one decomposes into itself.
Decomposition(c) ==
    CASE c = "A1" -> <<"A", "macron">>
      [] c = "A2" -> <<"A", "acute">>
      [] c = "A3" -> <<"A", "caron">>
      [] c = "A4" -> <<"A", "grave">>
      [] c = "a1" -> <<"a", "macron">>
      [] c = "a2" -> <<"a", "acute">>
      [] c = "a3" -> <<"a", "caron">>
      [] c = "a4" -> <<"a", "grave">>
      [] c = "E1" -> <<"E", "macron">>
      [] c = "E2" -> <<"E", "acute">>
      [] c = "E3" -> <<"E", "caron">>
      [] c = "E4" -> <<"E", "grave">>
      [] c = "e1" -> <<"e", "macron">>
      [] c = "e2" -> <<"e", "acute">>
      [] c = "e3" -> <<"e", "caron">>
      [] c = "e4" -> <<"e", "grave">>
      [] c = "i1" -> <<"i", "macron">>
      [] c = "i2" -> <<"i", "acute">>
      [] c = "i3" -> <<"i", "caron">>
      [] c = "i4" -> <<"i", "grave">>
      [] c = "O1" -> <<"O", "macron">>
      [] c = "O2" -> <<"O", "acute">>
      [] c = "O3" -> <<"O", "caron">>
      [] c = "O4" -> <<"O", "grave">>
      [] c = "o1" -> <<"o", "macron">>
      [] c = "o2" -> <<"o", "acute">>
      [] c = "o3" -> <<"o", "caron">>
      [] c = "o4" -> <<"o", "grave">>
      [] c = "u1" -> <<"u", "macron">>
      [] c = "u2" -> <<"u", "acute">>
      [] c = "u3" -> <<"u", "caron">>
      [] c = "u4" -> <<"u", "grave">>
      [] c = "u0" -> <<"u", "diaeresis">>
      [] c = "u01" -> <<"u0", "macron">>
      [] c = "u02" -> <<"u0", "acute">>
      [] c = "u03" -> <<"u0", "caron">>
      [] c = "u04" -> <<"u0", "grave">>
      [] OTHER -> <<c>>

\* norm.NFD: every character fully decomposed (the marks of the model all
\* have the same combining class, so none are reordered).
RECURSIVE NFD(_)
NFD(s) ==
    IF s = <<>> THEN <<>>
    ELSE LET d == Decomposition(Head(s))
         IN  (IF Len(d) = 1 THEN d ELSE NFD(<<d[1]>>) \o <<d[2]>>) \o NFD(Tail(s))

\* The character a base and a mark compose to, or "" when they do not
\* compose.
Composition(b, m) ==
    CASE b = "A" /\ m = "macron" -> "A1"
      [] b = "A" /\ m = "acute" -> "A2"
      [] b = "A" /\ m = "caron" -> "A3"
      [] b = "A" /\ m = "grave" -> "A4"
      [] b = "a" /\ m = "macron" -> "a1"
      [] b = "a" /\ m = "acute" -> "a2"
      [] b = "a" /\ m = "caron" -> "a3"
      [] b = "a" /\ m = "grave" -> "a4"
      [] b = "E" /\ m = "macron" -> "E1"
      [] b = "E" /\ m = "acute" -> "E2"
      [] b = "E" /\ m = "caron" -> "E3"
      [] b = "E" /\ m = "grave" -> "E4"
      [] b = "e" /\ m = "macron" -> "e1"
      [] b = "e" /\ m = "acute" -> "e2"
      [] b = "e" /\ m = "caron" -> "e3"
      [] b = "e" /\ m = "grave" -> "e4"
      [] b = "i" /\ m = "macron" -> "i1"
      [] b = "i" /\ m = "acute" -> "i2"
      [] b = "i" /\ m = "caron" -> "i3"
      [] b = "i" /\ m = "grave" -> "i4"
      [] b = "O" /\ m = "macron" -> "O1"
      [] b = "O" /\ m = "acute" -> "O2"
      [] b = "O" /\ m = "caron" -> "O3"
      [] b = "O" /\ m = "grave" -> "O4"
      [] b = "o" /\ m = "macron" -> "o1"
      [] b = "o" /\ m = "acute" -> "o2"
      [] b = "o" /\ m = "caron" -> "o3"
      [] b = "o" /\ m = "grave" -> "o4"
      [] b = "u" /\ m = "macron" -> "u1"
      [] b = "u" /\ m = "acute" -> "u2"
      [] b = "u" /\ m = "caron" -> "u3"
      [] b = "u" /\ m = "grave" -> "u4"
      [] b = "u" /\ m = "diaeresis" -> "u0"
      [] b = "u0" /\ m = "macron" -> "u01"
      [] b = "u0" /\ m = "acute" -> "u02"
      [] b = "u0" /\ m = "caron" -> "u03"
      [] b = "u0" /\ m = "grave" -> "u04"
      [] OTHER -> ""

\* norm.NFC of a decomposed string: a mark composes with the starter before
\* it unless a mark that did not compose stands between them (pending).
RECURSIVE ComposeFrom(_, _, _)
ComposeFrom(starter, pending, rest) ==
    IF rest = <<>> THEN starter \o pending
    ELSE LET c == Head(rest)
         IN  IF c \in Marks
               THEN IF starter # <<>> /\ pending = <<>>
                       /\ Composition(starter[1], c) # ""
                      THEN ComposeFrom(<<Composition(starter[1], c)>>, pending,
                                       Tail(rest))
                      ELSE ComposeFrom(starter, pending \o <<c>>, Tail(rest))
               ELSE starter \o pending \o ComposeFrom(<<c>>, <<>>, Tail(rest))

NFC(s) == ComposeFrom(<<>>, <<>>, NFD(s))

\* runes.Remove(runes.Predicate(unicode.IsDigit)).
RECURSIVE RemoveDigits(_)
RemoveDigits(s) ==
    IF s = <<>> THEN <<>>
    ELSE (IF Head(s) \in Digits THEN <<>> ELSE <<Head(s)>>) \o RemoveDigits(Tail(s))

\* StripDigits: the chain NFD, remove the digits, NFC.
StripDigits(s) == NFC(RemoveDigits(NFD(s)))

\* unicode.ToLower of one character.
LowerChar(c) ==
    CASE c = "A" -> "a" [] c = "B" -> "b" [] c = "C" -> "c" [] c = "E" -> "e"
      [] c = "M" -> "m" [] c = "O" -> "o" [] c = "T" -> "t" [] c = "Z" -> "z"
      [] c = "A1" -> "a1" [] c = "A2" -> "a2" [] c = "A3" -> "a3" [] c = "A4" -> "a4"
      [] c = "E1" -> "e1" [] c = "E2" -> "e2" [] c = "E3" -> "e3" [] c = "E4" -> "e4"
      [] c = "O1" -> "o1" [] c = "O2" -> "o2" [] c = "O3" -> "o3" [] c = "O4" -> "o4"
      [] OTHER -> c

\* strings.ToLower.
ToLower(s) == [k \in 1..Len(s) |-> LowerChar(s[k])]

\* s < t for Go strings: byte order, which for UTF-8 is code point order.
RECURSIVE StrLess(_, _)
StrLess(s, t) ==
    IF t = <<>> THEN FALSE
    ELSE IF s = <<>> THEN TRUE
    ELSE IF CodePoint(Head(s)) # CodePoint(Head(t))
      THEN CodePoint(Head(s)) < CodePoint(Head(t))
      ELSE StrLess(Tail(s), Tail(t))

\* --------------------------------------------------------- tone codec

\* var vowels = "AaEeiOouür"
vowels == <<"A", "a", "E", "e", "i", "O", "o", "u", "u0", "r">>

\* var toneNums = "12345"
toneNums == {"1", "2", "3", "4", "5"}

\* The keys of mapNumToTone.
ToneKeys == {"A", "a", "E", "e", "i", "O", "o", "u", "u0", "r"}

\* mapNumToTone[k]: the five forms of vowel k, ü being "u0" and its toned
\* forms "u01" to "u04".
mapNumToTone(k) ==
    CASE k = "A" -> <<"A1", "A2", "A3", "A4", "A">>
      [] k = "a" -> <<"a1", "a2", "a3", "a4", "a">>
      [] k = "E" -> <<"E1", "E2", "E3", "E4", "E">>
      [] k = "e" -> <<"e1", "e2", "e3", "e4", "e">>
      [] k = "i" -> <<"i1", "i2", "i3", "i4", "i">>
      [] k = "O" -> <<"O1", "O2", "O3", "O4", "O">>
      [] k = "o" -> <<"o1", "o2", "o3", "o4", "o">>
      [] k = "u" -> <<"u1", "u2", "u3", "u4", "u">>
      [] k = "u0" -> <<"u01", "u02", "u03", "u04", "u0">>
      [] k = "r" -> <<"r", "r", "r", "r", "r">>

\* mapToneToNum[r]: the base and the digit of a toned vowel; the empty
\* string for any other character.
mapToneToNum(r) ==
    CASE r = "A1" -> <<"A", "1">>
      [] r = "A2" -> <<"A", "2">>
      [] r = "A3" -> <<"A", "3">>
      [] r = "A4" -> <<"A", "4">>
      [] r = "a1" -> <<"a", "1">>
      [] r = "a2" -> <<"a", "2">>
      [] r = "a3" -> <<"a", "3">>
      [] r = "a4" -> <<"a", "4">>
      [] r = "E1" -> <<"E", "1">>
      [] r = "E2" -> <<"E", "2">>
      [] r = "E3" -> <<"E", "3">>
      [] r = "E4" -> <<"E", "4">>
      [] r = "e1" -> <<"e", "1">>
      [] r = "e2" -> <<"e", "2">>
      [] r = "e3" -> <<"e", "3">>
      [] r = "e4" -> <<"e", "4">>
      [] r = "i1" -> <<"i", "1">>
      [] r = "i2" -> <<"i", "2">>
      [] r = "i3" -> <<"i", "3">>
      [] r = "i4" -> <<"i", "4">>
      [] r = "O1" -> <<"O", "1">>
      [] r = "O2" -> <<"O", "2">>
      [] r = "O3" -> <<"O", "3">>
      [] r = "O4" -> <<"O", "4">>
      [] r = "o1" -> <<"o", "1">>
      [] r = "o2" -> <<"o", "2">>
      [] r = "o3" -> <<"o", "3">>
      [] r = "o4" -> <<"o", "4">>
      [] r = "u1" -> <<"u", "1">>
      [] r = "u2" -> <<"u", "2">>
      [] r = "u3" -> <<"u", "3">>
      [] r = "u4" -> <<"u", "4">>
      [] r = "u0" -> <<"u", ":", " ">>
      [] r = "u01" -> <<"u", ":", "1">>
      [] r = "u02" -> <<"u", ":", "2">>
      [] r = "u03" -> <<"u", ":", "3">>
      [] r = "u04" -> <<"u", ":", "4">>
      [] OTHER -> <<>>

\* The value of a digit character (strconv.Atoi of a one-digit string).
DigitValue(c) == CodePoint(c) - 48

\* guessToneIndex: the index, in characters, of the first occurrence of the
\* highest-priority vowel of s, or -1; v is the vowel under test.
RECURSIVE guessToneIndexFrom(_, _)
guessToneIndexFrom(s, v) ==
    IF v > Len(vowels) THEN -1
    ELSE IF Index(s, vowels[v]) >= 0 THEN Index(s, vowels[v])
    ELSE guessToneIndexFrom(s, v + 1)

guessToneIndex(s) == guessToneIndexFrom(s, 1)

\* The Go runtime stopped the call: an index or a slice out of range.
Panic == [panic |-> TRUE, out |-> <<>>]

\* The call returned the string out.
Returned(out) == [panic |-> FALSE, out |-> out]

\* One pass of the loop of PinyinTones: what token w adds to the result.
TonesOfToken(w) ==
    LET i == guessToneIndex(w)
        numIndex == IndexAny(w, toneNums)
    IN  IF i < 0 THEN Returned(w \o <<" ">>)
        ELSE IF numIndex < 0 THEN Returned(w \o <<" ">>)
        ELSE LET tone == DigitValue(w[numIndex + 1]) - 1
                 w2 == SubSeq(w, 1, numIndex) \o SubSeq(w, numIndex + 2, Len(w))
             IN  IF tone < 0 \/ tone >= Cardinality(ToneKeys)
                   THEN Returned(w \o <<" ">>)
                 ELSE IF i >= Len(w2) THEN Panic
                 ELSE IF w2[i + 1] \notin ToneKeys THEN Panic
                 ELSE Returned(SubSeq(w2, 1, i)
                               \o <<mapNumToTone(w2[i + 1])[tone + 1]>>
                               \o SubSeq(w2, i + 2, Len(w2)) \o <<" ">>)

\* The loop of PinyinTones over the tokens.
RECURSIVE TonesOfTokens(_)
TonesOfTokens(ws) ==
    IF ws = <<>> THEN Returned(<<>>)
    ELSE LET first == TonesOfToken(Head(ws))
             rest == TonesOfTokens(Tail(ws))
         IN  IF first.panic \/ rest.panic THEN Panic
             ELSE Returned(first.out \o rest.out)

\* PinyinTones(s): u: becomes ü, each space-separated token is converted,
\* the result is trimmed.
PinyinTones(s) ==
    LET r == TonesOfTokens(Split(ReplaceUColon(s), " "))
    IN  IF r.panic THEN Panic ELSE Returned(TrimSpace(r.out))

\* The inner loop of PinyinToneNums writing the digit where the toned vowel
\* stands instead of keeping it for the end of the token.
RECURSIVE NumsOfRunesInline(_, _, _)
NumsOfRunesInline(w, text, tone) ==
    IF w = <<>> THEN text \o <<" ">>
    ELSE LET m == mapToneToNum(Head(w))
         IN  IF m # <<>>
               THEN NumsOfRunesInline(Tail(w), text \o TrimSpace(m), tone)
               ELSE NumsOfRunesInline(Tail(w), text \o <<Head(w)>>, tone)

\* The inner loop of PinyinToneNums over the characters of one token: the
\* text added to the result and the tone to append.
RECURSIVE NumsOfRunes(_, _, _)
NumsOfRunes(w, text, tone) ==
    IF w = <<>> THEN text \o tone \o <<" ">>
    ELSE LET m == mapToneToNum(Head(w))
         IN  IF m # <<>>
               THEN NumsOfRunes(Tail(w), text \o SubSeq(m, 1, Len(m) - 1),
                                TrimSpace(SubSeq(m, Len(m), Len(m))))
               ELSE NumsOfRunes(Tail(w), text \o <<Head(w)>>, tone)

\* The loop of PinyinToneNums over the tokens.
RECURSIVE NumsOfTokens(_)
NumsOfTokens(ws) ==
    IF ws = <<>> THEN <<>>
    ELSE NumsOfRunes(Head(ws), <<>>, <<>>) \o NumsOfTokens(Tail(ws))

\* PinyinToneNums(s).
PinyinToneNums(s) == TrimSpace(NumsOfTokens(Split(s, " ")))

\* The characters of the strings given to the tone codec: vowels of four
\* priorities (a, u, ü, r), ü also in its u: spelling, a consonant, a tone
\* digit, the neutral digit and the space.
ToneAlphabet == {"a", "u", "u0", ":", "r", "n", "4", "5", " "}

ToneInit ==
    /\ LifeInit
    /\ \E s \in Strs(ToneAlphabet, ToneMaxLen) : args = [s |-> s]
    /\ result = NoResult

\* PinyinTones(s), PinyinToneNums(s) and, when PinyinTones returned,
\* PinyinToneNums of what it returned.
ToneApply ==
    /\ ~result.done
    /\ LET t == PinyinTones(args.s)
       IN  result' = [done |-> TRUE,
                      tones |-> t,
                      nums |-> PinyinToneNums(args.s),
                      back |-> IF t.panic THEN <<>> ELSE PinyinToneNums(t.out)]
    /\ UNCHANGED args

ToneNext == ToneApply /\ UNCHANGED lifeVars

ToneSpec == ToneInit /\ [][ToneNext]_vars

\* ------------------------------------------------------- GetByPinyin

\* sort.SliceStable(results, less) as a stable insertion: x goes after
\* every element it is not less than.
RECURSIVE InsertStable(_, _, _)
InsertStable(sorted, x, e) ==
    IF sorted = <<>> THEN <<x>>
    ELSE IF StrLess(e[x].Pinyin, e[Head(sorted)].Pinyin)
      THEN <<x>> \o sorted
      ELSE <<Head(sorted)>> \o InsertStable(Tail(sorted), x, e)

RECURSIVE SortByPinyin(_, _, _)
SortByPinyin(results, sorted, e) ==
    IF results = <<>> THEN sorted
    ELSE SortByPinyin(Tail(results), InsertStable(sorted, Head(results), e), e)

\* The entry's pinyin as GetByPinyin compares it: lower case, no spaces
\* and, for a plaintext query, no digits.
EntryKey(pinyin, isPlaintext) ==
    LET p == RemoveSpaces(ToLower(pinyin))
    IN  IF isPlaintext THEN StripDigits(p) ELSE p

\* The loop of GetByPinyin over d.e from entry k: the entries whose key
\* equals the query, as positions in d.e (the code holds pointers).
RECURSIVE PinyinMatches(_, _, _, _)
PinyinMatches(e, s, isPlaintext, k) ==
    IF k > Len(e) THEN <<>>
    ELSE (IF EntryKey(e[k].Pinyin, isPlaintext) = s THEN <<k>> ELSE <<>>)
         \o PinyinMatches(e, s, isPlaintext, k + 1)

\* d.GetByPinyin(s) on the entry list e, after lazyLoad.
GetByPinyin(e, s) ==
    LET nums == PinyinToneNums(s)
        isPlaintext == IndexAny(nums, toneNums) < 0
        q == RemoveSpaces(ToLower(nums))
    IN  SortByPinyin(PinyinMatches(e, q, isPlaintext, 1), <<>>, e)

\* An entry with the given pinyin field.
PinEntry(pinyin) ==
    [Traditional |-> <<"zhong">>, Simplified |-> <<"zhong">>,
     Pinyin |-> pinyin, Meanings |-> <<<<"m">>>>]

\* The entries of the indexes GetByPinyin searches: a capital and a tone
\* digit, a digit that is no tone, a space and no digit, and a tone written
\* as a combining mark after its vowel.
PinEntries ==
    {PinEntry(<<"M", "a", "3">>), PinEntry(<<"m", "a", "6">>),
     PinEntry(<<"m", " ", "a">>), PinEntry(<<"m", "a", "caron">>)}

\* The characters of the queries: letters in both cases, a toned vowel, a
\* combining tone mark, the space, a tone digit and a digit that is no tone.
PinAlphabet == {"m", "M", "a", "a3", "caron", " ", "3", "6"}

PinInit ==
    /\ LifeInit
    /\ \E e \in Strs(PinEntries, PinMaxIndex) :
       \E q \in Strs(PinAlphabet, PinMaxLen) :
         args = [e |-> e, query |-> q]
    /\ result = NoResult

\* d.GetByPinyin(query) on a ready Dict whose entries are e.
PinApply ==
    /\ ~result.done
    /\ result' = [done |-> TRUE, out |-> GetByPinyin(args.e, args.query)]
    /\ UNCHANGED args

PinNext == PinApply /\ UNCHANGED lifeVars

PinSpec == PinInit /\ [][PinNext]_vars

\* ----------------------------------------------------- Parse and Save

\* LineEnding is the line ending Save writes.
LineEnding == <<"CR", "LF">>

\* bufio's dropCR: the line without one trailing carriage return.
dropCR(line) ==
    IF line # <<>> /\ line[Len(line)] = "CR"
      THEN SubSeq(line, 1, Len(line) - 1) ELSE line

\* bufio.ScanLines applied until the end of the text: the lines between the
\* line feeds, a last line without a line feed included when not empty.
RECURSIVE ScanLines(_)
ScanLines(text) ==
    IF text = <<>> THEN <<>>
    ELSE LET i == Index(text, "LF")
         IN  IF i < 0 THEN <<dropCR(text)>>
             ELSE <<dropCR(SubSeq(text, 1, i))>>
                  \o ScanLines(SubSeq(text, i + 2, Len(text)))

\* strings.HasPrefix.
HasPrefix(s, prefix) ==
    Len(s) >= Len(prefix) /\ SubSeq(s, 1, Len(prefix)) = prefix

\* The value of a string of decimal digits.
RECURSIVE DecimalValue(_, _)
DecimalValue(ds, acc) ==
    IF ds = <<>> THEN acc
    ELSE DecimalValue(Tail(ds), 10 * acc + DigitValue(Head(ds)))

\* strconv.Atoi: an optional sign and at least one digit, nothing else.
Atoi(v) ==
    LET signed == v # <<>> /\ v[1] \in {"+", "-"}
        ds == IF signed THEN Tail(v) ELSE v
    IN  IF ds = <<>> \/ \E k \in 1..Len(ds) : ds[k] \notin Digits
          THEN [ok |-> FALSE, n |-> 0]
          ELSE [ok |-> TRUE,
                n |-> IF signed /\ v[1] = "-" THEN 0 - DecimalValue(ds, 0)
                      ELSE DecimalValue(ds, 0)]

\* time.Parse(time.RFC3339, v) for a time written in UTC with a "Z": the
\* layout 2006-01-02T15:04:05Z with every field in its range.  The time is
\* kept as its text.
ParseTime(v) ==
    LET num(a, b) == DecimalValue(SubSeq(v, a, b), 0)
        shape == /\ Len(v) = 20
                 /\ \A k \in {1, 2, 3, 4, 6, 7, 9, 10, 12, 13, 15, 16, 18, 19} :
                      v[k] \in Digits
                 /\ v[5] = "-" /\ v[8] = "-" /\ v[11] = "T"
                 /\ v[14] = ":" /\ v[17] = ":" /\ v[20] = "Z"
    IN  IF shape /\ num(6, 7) \in 1..12 /\ num(9, 10) \in 1..31
           /\ num(12, 13) <= 23 /\ num(15, 16) <= 59 /\ num(18, 19) <= 59
          THEN [ok |-> TRUE, t |-> v]
          ELSE [ok |-> FALSE, t |-> <<>>]

\* The zero Metadata of newDict.
ZeroMetadata ==
    [Version |-> 0, Subversion |-> 0, Format |-> <<>>, Charset |-> <<>>,
     Entries |-> 0, Publisher |-> <<>>, License |-> <<>>, Timestamp |-> <<>>]

\* The outcomes of Parse and of Entry.Unmarshal.
ParsePanic == [kind |-> "panic"]
ParseError(msg) == [kind |-> "error", msg |-> msg]

\* strings.Index(line, "="), in bytes.
IndexEq(line) ==
    LET i == Index(line, "=")
    IN  IF i < 0 THEN -1 ELSE ByteLen(SubSeq(line, 1, i))

\* line[3:i] of a "#!" line whose "=" is at byte i >= 3: the characters from
\* the fourth byte up to the "=".  When the third character is longer than
\* one byte the slice starts inside it ("cont" stands for the bytes cut off).
KeyOf(line) ==
    LET i == Index(line, "=")
    IN  IF Utf8Len(line[3]) = 1 THEN SubSeq(line, 4, i)
        ELSE <<"cont">> \o SubSeq(line, 4, i)

\* line[i+1:]: the characters after the first "=".
ValueOf(line) == SubSeq(line, Index(line, "=") + 2, Len(line))

\* The switch of Parse on a metadata key: the metadata with the value
\* stored, or the error of a value that does not convert.
SetMetadata(md, k, v) ==
    CASE k = <<"v", "e", "r", "s", "i", "o", "n">> ->
           IF Atoi(v).ok THEN [ok |-> TRUE, md |-> [md EXCEPT !.Version = Atoi(v).n]]
           ELSE [ok |-> FALSE, msg |-> "version: expected number"]
      [] k = <<"s", "u", "b", "v", "e", "r", "s", "i", "o", "n">> ->
           IF Atoi(v).ok THEN [ok |-> TRUE, md |-> [md EXCEPT !.Subversion = Atoi(v).n]]
           ELSE [ok |-> FALSE, msg |-> "subversion: expected number"]
      [] k = <<"f", "o", "r", "m", "a", "t">> ->
           [ok |-> TRUE, md |-> [md EXCEPT !.Format = v]]
      [] k = <<"c", "h", "a", "r", "s", "e", "t">> ->
           [ok |-> TRUE, md |-> [md EXCEPT !.Charset = v]]
      [] k = <<"e", "n", "t", "r", "i", "e", "s">> ->
           IF Atoi(v).ok THEN [ok |-> TRUE, md |-> [md EXCEPT !.Entries = Atoi(v).n]]
           ELSE [ok |-> FALSE, msg |-> "entries: expected number"]
      [] k = <<"p", "u", "b", "l", "i", "s", "h", "e", "r">> ->
           [ok |-> TRUE, md |-> [md EXCEPT !.Publisher = v]]
      [] k = <<"l", "i", "c", "e", "n", "s", "e">> ->
           [ok |-> TRUE, md |-> [md EXCEPT !.License = v]]
      [] k = <<"d", "a", "t", "e">> ->
           IF ParseTime(v).ok
             THEN [ok |-> TRUE, md |-> [md EXCEPT !.Timestamp = ParseTime(v).t]]
             ELSE [ok |-> FALSE, msg |-> "date: expected RFC3339 format"]
      [] OTHER -> [ok |-> TRUE, md |-> md]

\* The white space fmt's scanner meets inside a line of the model.
ScanSpace == {" "}

\* The tokens "%s" reads one after the other: the runs of characters
\* between white space.
RECURSIVE Tokens(_, _)
Tokens(s, tok) ==
    IF s = <<>> THEN (IF tok = <<>> THEN <<>> ELSE <<tok>>)
    ELSE IF Head(s) \in ScanSpace
      THEN (IF tok = <<>> THEN <<>> ELSE <<tok>>) \o Tokens(Tail(s), <<>>)
      ELSE Tokens(Tail(s), tok \o <<Head(s)>>)

\* fmt.Sscanf(chars, "%s %s ", &trad, &sim): the first two tokens; an error
\* when the input ends before the second; what follows the second token is
\* not read.
Sscanf2(chars) ==
    LET toks == Tokens(chars, <<>>)
    IN  IF Len(toks) < 2 THEN [ok |-> FALSE, trad |-> <<>>, sim |-> <<>>]
        ELSE [ok |-> TRUE, trad |-> toks[1], sim |-> toks[2]]

\* Entry.Unmarshal(s): the entry, an error, or the panic of a slice whose
\* bounds are out of range.
Unmarshal(s) ==
    LET fields == Split(s, "/")
        off == Index(fields[1], "[")
        end == Index(fields[1], "]")
    IN  IF off < 0 \/ end < 0 THEN ParseError("expected '[pinyin]' format")
        ELSE IF end < off + 1 THEN ParsePanic
        ELSE LET chars == SubSeq(fields[1], 1, off)
                 pinyin == SubSeq(fields[1], off + 2, end)
                 scan == Sscanf2(chars)
             IN  IF ~scan.ok THEN ParseError("unexpected EOF")
                 ELSE IF Len(fields) - 1 < 1 THEN ParsePanic
                 ELSE [kind |-> "entry",
                       entry |-> [Traditional |-> scan.trad,
                                  Simplified |-> scan.sim,
                                  Pinyin |-> pinyin,
                                  Meanings |-> SubSeq(fields, 2, Len(fields) - 1)]]

\* Entry.Marshal.
Marshal(e) ==
    e.Traditional \o <<" ">> \o e.Simplified \o <<" ", "[">> \o e.Pinyin
    \o <<"]", " ">> \o <<"/">> \o Join(e.Meanings, <<"/">>) \o <<"/">>

\* The header entry count always passes.
ValidateCountSkipped(e, md) == TRUE

\* Parse's validation of the header entry count.
ValidateCount(e, md) == Len(e) = md.Entries

\* The loop of Parse over the scanned lines, d being the Dict built so far,
\* and the validation that follows it.
RECURSIVE ParseLines(_, _)
ParseLines(lines, d) ==
    IF lines = <<>>
      THEN IF ValidateCount(d.e, d.md)
             THEN [kind |-> "dict", e |-> d.e, md |-> d.md, header |-> d.header]
             ELSE ParseError("loaded entries != header entries")
    ELSE LET line == Head(lines)
         IN  IF HasPrefix(line, <<"#">>)
               THEN LET d1 == [d EXCEPT !.header = Append(@, line)]
                    IN  IF HasPrefix(line, <<"#", "!">>)
                          THEN IF IndexEq(line) < 3 THEN ParsePanic
                               ELSE LET r == SetMetadata(d1.md, KeyOf(line),
                                                         ValueOf(line))
                                    IN  IF r.ok
                                          THEN ParseLines(Tail(lines),
                                                          [d1 EXCEPT !.md = r.md])
                                          ELSE ParseError(r.msg)
                          ELSE ParseLines(Tail(lines), d1)
               ELSE LET u == Unmarshal(line)
                    IN  IF u.kind = "entry"
                          THEN ParseLines(Tail(lines),
                                          [d EXCEPT !.e = Append(@, u.entry)])
                          ELSE IF u.kind = "panic" THEN ParsePanic
                          ELSE ParseError("unmarshal")

\* Parse(r), text being what r reads.
Parse(text) ==
    ParseLines(ScanLines(text), [e |-> <<>>, md |-> ZeroMetadata, header |-> <<>>])

\* The bytes Save writes for the entries from entry k on.
RECURSIVE SaveEntries(_, _)
SaveEntries(e, k) ==
    IF k > Len(e) THEN <<>>
    ELSE LineEnding \o Marshal(e[k]) \o SaveEntries(e, k + 1)

\* The bytes d.Save writes to a file whose name does not end in ".gz".
Save(d) == Join(d.header, LineEnding) \o SaveEntries(d.e, 1)

\* The lines of the texts given to Parse: headers that declare one entry,
\* two entries and no number, a metadata line, a comment, an entry with two
\* meanings, one with none, one that begins with a space and a "#", and one
\* with a single hanzi field.
ParseLinePool ==
    {<<"#", "!", " ", "e", "n", "t", "r", "i", "e", "s", "=", "1">>,
     <<"#", "!", " ", "e", "n", "t", "r", "i", "e", "s", "=", "2">>,
     <<"#", "!", " ", "e", "n", "t", "r", "i", "e", "s", "=", "x">>,
     <<"#", "!", " ", "f", "o", "r", "m", "a", "t", "=", "t", "s">>,
     <<"#", " ", "c">>,
     <<"A", " ", "B", " ", "[", "p", "]", " ", "/", "m", "/", "n", "/">>,
     <<"A", " ", "B", " ", "[", "p", "]", " ", "/">>,
     <<" ", "#", "A", " ", "B", " ", "[", "p", "]", " ", "/", "m", "/">>,
     <<"A", " ", "[", "p", "]", " ", "/", "m", "/">>}

\* The line endings of the texts given to Parse.
TextEndings == {<<"LF">>, <<"CR", "LF">>}

ParseInit ==
    /\ LifeInit
    /\ \E ls \in Strs(ParseLinePool, MaxLines) :
       \E ending \in TextEndings :
       \E final \in BOOLEAN :
         args = [text |-> Join(ls, ending)
                          \o (IF final /\ ls # <<>> THEN ending ELSE <<>>)]
    /\ result = NoResult

\* Parse(r) on the text.
ParseCall ==
    /\ ~result.done
    /\ result' = [done |-> TRUE, stage |-> "parsed", dict |-> Parse(args.text),
                  file |-> <<>>, loaded |-> [kind |-> "none"]]
    /\ UNCHANGED args

\* d.Save(filename) on the Dict Parse returned.
SaveCall ==
    /\ result.done
    /\ result.stage = "parsed"
    /\ result.dict.kind = "dict"
    /\ result' = [result EXCEPT !.stage = "saved", !.file = Save(result.dict)]
    /\ UNCHANGED args

\* Load(filename) on the file Save wrote.
LoadCall ==
    /\ result.done
    /\ result.stage = "saved"
    /\ result' = [result EXCEPT !.stage = "loaded", !.loaded = Parse(result.file)]
    /\ UNCHANGED args

ParseNext == (ParseCall \/ SaveCall \/ LoadCall) /\ UNCHANGED lifeVars

ParseSpec == ParseInit /\ [][ParseNext]_vars

\* The lines of the texts that try the grammar: a header, an entry, entry
\* lines with three, two, no and one hanzi field, the second without
\* brackets, "#!" lines without "=", with "=" as third character and with
\* nothing more, an entry line without "/" and one whose "]" precedes its
\* "[".
GrammarLinePool ==
    {<<"#", "!", " ", "e", "n", "t", "r", "i", "e", "s", "=", "1">>,
     <<"A", " ", "B", " ", "[", "p", "]", " ", "/", "m", "/">>,
     <<"A", " ", "B", " ", "C", " ", "[", "p", "]", " ", "/", "m", "/">>,
     <<"A", " ", "B", " ", "/", "m", "/">>,
     <<"[", "p", "]", " ", "/", "m", "/">>,
     <<"A", " ", "[", "p", "]", " ", "/", "m", "/">>,
     <<"#", "!", "x">>,
     <<"#", "!", "=", "1">>,
     <<"#", "!">>,
     <<"A", " ", "B", " ", "[", "p", "]">>,
     <<"A", "]", " ", "B", " ", "[", "p", " ", "/", "m", "/">>}

GrammarInit ==
    /\ LifeInit
    /\ \E ls \in Strs(GrammarLinePool, MaxLines) :
       \E ending \in TextEndings :
       \E final \in BOOLEAN :
         args = [text |-> Join(ls, ending)
                          \o (IF final /\ ls # <<>> THEN ending ELSE <<>>)]
    /\ result = NoResult

GrammarSpec == GrammarInit /\ [][ParseNext]_vars

\* ------------------------------------------------------- levenshtein

\* Sequencing of two statements: the value x of the first is computed and
\* then handed to the second.
Then(x, Rest(_)) == CHOOSE r \in {Rest(v) : v \in {x}} : TRUE

\* min with its third operand left out of the comparison.
minOfTwo(x, y, z) == IF x < y THEN x ELSE y

\* min returns the minimum of three int inputs.
min(x, y, z) ==
    IF x < y
      THEN (IF x < z THEN x ELSE z)
      ELSE (IF y < z THEN y ELSE z)

\* The inner loop of levenshtein, for j to l1: the row ld, prev and curr.
RECURSIVE levInner(_, _, _, _, _, _)
levInner(ld, prev, i, j, s1, s2) ==
    IF j > Len(s1)
      THEN [ld EXCEPT ![Len(s1)] = prev]
      ELSE LET curr == IF s2[i] = s1[j]
                         THEN ld[j - 1]
                         ELSE min(ld[j - 1] + 1, prev + 1, ld[j] + 1)
           IN  Then(<<[ld EXCEPT ![j - 1] = prev], curr>>,
                    LAMBDA v : levInner(v[1], v[2], i, j + 1, s1, s2))

\* The outer loop of levenshtein, for i to l2.
RECURSIVE levOuter(_, _, _, _)
levOuter(ld, i, s1, s2) ==
    IF i > Len(s2)
      THEN ld[Len(s1)]
      ELSE Then(levInner(ld, i, i, 1, s1, s2),
                LAMBDA row : levOuter(row, i + 1, s1, s2))

\* levenshtein(src, dst): equal strings give 0; the strings are swapped when
\* src has more bytes than dst; the single row ld starts as 0..l1.
levenshtein(src, dst) ==
    IF src = dst THEN 0
    ELSE LET swap == ByteLen(src) > ByteLen(dst)
             s1 == IF swap THEN dst ELSE src
             s2 == IF swap THEN src ELSE dst
         IN  levOuter([j \in 0..Len(s1) |-> j], 1, s1, s2)

\* The characters of the strings given to levenshtein: one byte and three.
LevAlphabet == {"a", "zhong"}

LevInit ==
    /\ LifeInit
    /\ \E a, b, c \in Strs(LevAlphabet, LevMaxLen) :
         args = [src |-> a, dst |-> b, mid |-> c]
    /\ result = NoResult

\* The distances between the three strings, each by a call of levenshtein.
LevApply ==
    /\ ~result.done
    /\ result' = [done |-> TRUE,
                  sd |-> levenshtein(args.src, args.dst),
                  ds |-> levenshtein(args.dst, args.src),
                  sm |-> levenshtein(args.src, args.mid),
                  md |-> levenshtein(args.mid, args.dst)]
    /\ UNCHANGED args

LevNext == LevApply /\ UNCHANGED lifeVars

LevSpec == LevInit /\ [][LevNext]_vars

\* ------------------------------------------------------ GetByMeaning

\* MaxResults determines the most entries returned for any Dict method.
MaxResults == 50

\* MaxLD controls the max levenshtein distance allowed for matches.
MaxLD == 10

\* strings.Contains(s, substr).
Contains(s, substr) ==
    \E k \in 0..(Len(s) - Len(substr)) :
        SubSeq(s, k + 1, k + Len(substr)) = substr

\* The inner loop of GetByMeaning that stops at the first meaning contained
\* in the query, near or far: its position when near, 0 otherwise.
FirstMeaningOnly(meanings, s, k) ==
    LET found == {j \in k..Len(meanings) : Contains(s, ToLower(meanings[j]))}
        j == CHOOSE j \in found : \A i \in found : j <= i
    IN  IF found # {} /\ levenshtein(s, ToLower(meanings[j])) <= MaxLD
          THEN j ELSE 0

\* The inner loop of GetByMeaning from meaning k on: the position of the
\* first meaning that, lower-cased, is contained in s and is at most MaxLD
\* from it, or 0 when the loop ends without one.
RECURSIVE NearMeaning(_, _, _)
NearMeaning(meanings, s, k) ==
    IF k > Len(meanings) THEN 0
    ELSE LET m == ToLower(meanings[k])
         IN  IF Contains(s, m) /\ levenshtein(s, m) <= MaxLD THEN k
             ELSE NearMeaning(meanings, s, k + 1)

\* The outer loop of GetByMeaning from entry k on: the entries appended to
\* results, as positions in d.e, each with the distance stored in lev.
RECURSIVE MeaningMatches(_, _, _)
MeaningMatches(e, s, k) ==
    IF k > Len(e) THEN <<>>
    ELSE LET j == NearMeaning(e[k].Meanings, s, 1)
         IN  (IF j = 0 THEN <<>>
              ELSE <<[pos |-> k,
                      ld |-> levenshtein(s, ToLower(e[k].Meanings[j]))]>>)
             \o MeaningMatches(e, s, k + 1)

\* sort.SliceStable by lev, as a stable insertion.
RECURSIVE InsertByLev(_, _)
InsertByLev(sorted, x) ==
    IF sorted = <<>> THEN <<x>>
    ELSE IF x.ld < Head(sorted).ld THEN <<x>> \o sorted
    ELSE <<Head(sorted)>> \o InsertByLev(Tail(sorted), x)

RECURSIVE SortByLev(_, _)
SortByLev(results, sorted) ==
    IF results = <<>> THEN sorted
    ELSE SortByLev(Tail(results), InsertByLev(sorted, Head(results)))

\* results[:MaxResults] when results is longer.
Limit(results) ==
    IF Len(results) > MaxResults THEN SubSeq(results, 1, MaxResults)
    ELSE results

\* d.GetByMeaning(s) on the entry list e, after lazyLoad: positions in e.
GetByMeaning(e, s) ==
    LET sorted == Limit(SortByLev(MeaningMatches(e, ToLower(s), 1), <<>>))
    IN  [k \in 1..Len(sorted) |-> sorted[k].pos]

\* A string of n characters c.
Repeat(c, n) == [k \in 1..n |-> c]

\* A string one character longer than MaxLD: a query that ends in a short
\* meaning and begins with it is too far from that meaning.
MeanPad == Repeat("x", MaxLD + 1)

\* An entry with the given meanings.
MeanEntry(meanings) ==
    [Traditional |-> <<"zhong">>, Simplified |-> <<"zhong">>,
     Pinyin |-> <<"p">>, Meanings |-> meanings]

\* The entries of the indexes GetByMeaning searches: one short meaning, a
\* short meaning before a long one, a capital, an empty meaning, two short
\* meanings, and a meaning exactly MaxLD shorter than the longest queries.
MeanEntries ==
    {MeanEntry(<<<<"a">>>>),
     MeanEntry(<<<<"a">>, MeanPad \o <<"a">>>>),
     MeanEntry(<<<<"A", "b">>>>),
     MeanEntry(<<<<>>>>),
     MeanEntry(<<<<"b">>, <<"a">>>>),
     MeanEntry(<<Repeat("x", 3)>>)}

\* The characters of the tails of the queries.
MeanAlphabet == {"a", "b", "A"}

MeanInit ==
    /\ LifeInit
    /\ \E e \in Strs(MeanEntries, MeanMaxIndex) :
       \E w \in Strs(MeanAlphabet, MeanMaxLen) :
       \E pad \in {<<>>, MeanPad} :
         args = [e |-> e, query |-> pad \o w]
    /\ result = NoResult

\* d.GetByMeaning(query) on a ready Dict whose entries are e.
MeanApply ==
    /\ ~result.done
    /\ result' = [done |-> TRUE, out |-> GetByMeaning(args.e, args.query)]
    /\ UNCHANGED args

MeanNext == MeanApply /\ UNCHANGED lifeVars

MeanSpec == MeanInit /\ [][MeanNext]_vars

\* ------------------------------------------------- the result limit

\* The loop of GetAllByHanzi over d.e from entry k on: the entries whose
\* traditional or simplified field equals s, as positions in d.e.
RECURSIVE HanziMatches(_, _, _)
HanziMatches(e, s, k) ==
    IF k > Len(e) THEN <<>>
    ELSE (IF e[k].Traditional = s \/ e[k].Simplified = s THEN <<k>> ELSE <<>>)
         \o HanziMatches(e, s, k + 1)

\* d.GetAllByHanzi(s) on the entry list e, after lazyLoad.
GetAllByHanzi(e, s) == HanziMatches(e, TrimSpace(s), 1)

\* The entry of the indexes of the result limit, and the queries that find
\* it by hanzi, by pinyin and by meaning.
LimitEntry ==
    [Traditional |-> <<"zhong">>, Simplified |-> <<"wen">>,
     Pinyin |-> <<"p", "1">>, Meanings |-> <<<<"a">>>>]

LimitQueries == [hanzi |-> <<"wen">>, pinyin |-> <<"p">>, meaning |-> <<"a", "b">>]

LimitInit ==
    /\ LifeInit
    /\ \E n \in 0..(MaxResults + LimitExtra) :
         args = [e |-> [k \in 1..n |-> LimitEntry]]
    /\ result = NoResult

\* d.GetAllByHanzi on a ready Dict whose entries are e.
AllByHanziCall ==
    /\ ~result.done
    /\ result' = [done |-> TRUE, method |-> "GetAllByHanzi",
                  out |-> GetAllByHanzi(args.e, LimitQueries.hanzi)]
    /\ UNCHANGED args

\* d.GetByPinyin on a ready Dict whose entries are e.
ByPinyinCall ==
    /\ ~result.done
    /\ result' = [done |-> TRUE, method |-> "GetByPinyin",
                  out |-> GetByPinyin(args.e, LimitQueries.pinyin)]
    /\ UNCHANGED args

\* d.GetByMeaning on a ready Dict whose entries are e.
ByMeaningCall ==
    /\ ~result.done
    /\ result' = [done |-> TRUE, method |-> "GetByMeaning",
                  out |-> GetByMeaning(args.e, LimitQueries.meaning)]
    /\ UNCHANGED args

LimitNext ==
    (AllByHanziCall \/ ByPinyinCall \/ ByMeaningCall) /\ UNCHANGED lifeVars

LimitSpec == LimitInit /\ [][LimitNext]_vars

\* ----------------------------------------------------- HanziToPinyin

\* unicode.In(r, unicode.Han) on the model's characters, whose Han
\* characters lie in the CJK Unified Ideographs block.
IsHan(c) == CodePoint(c) \in 19968..40959

\* The symbols table: the Latin symbol of a hanzi symbol.
symbols(c) == CASE c = "fullq" -> <<"?">> [] OTHER -> <<c>>

\* ConvertSymbols replaces common hanzi symbols with latin symbols.
RECURSIVE ConvertSymbols(_)
ConvertSymbols(s) ==
    IF s = <<>> THEN <<>> ELSE symbols(Head(s)) \o ConvertSymbols(Tail(s))

\* The loop of GetByHanzi over d.e from entry k on: the position of the
\* first entry whose traditional or simplified field equals s, 0 for nil.
RECURSIVE FirstByHanzi(_, _, _)
FirstByHanzi(e, s, k) ==
    IF k > Len(e) THEN 0
    ELSE IF e[k].Traditional = s \/ e[k].Simplified = s THEN k
    ELSE FirstByHanzi(e, s, k + 1)

\* d.GetByHanzi(s) on the entry list e, after lazyLoad.
GetByHanzi(e, s) == FirstByHanzi(e, TrimSpace(s), 1)

\* The probes of HanziToPinyin taken from the short end: the least j > i
\* for which GetByHanzi finds runes[i:j], or 0.
ShortestMatch(e, runes, i, j) ==
    LET found == {k \in (i + 1)..Len(runes) :
                     GetByHanzi(e, SubSeq(runes, i + 1, k)) # 0}
    IN  IF found = {} THEN 0
        ELSE CHOOSE k \in found : \A m \in found : k <= m

\* The probes of HanziToPinyin from j down to i+1: the greatest j > i for
\* which GetByHanzi finds runes[i:j], or 0 when none is found.
RECURSIVE LongestMatch(_, _, _, _)
LongestMatch(e, runes, i, j) ==
    IF j <= i THEN 0
    ELSE IF GetByHanzi(e, SubSeq(runes, i + 1, j)) # 0 THEN j
    ELSE LongestMatch(e, runes, i, j - 1)

\* The end of the run of characters that are not Han and begins at i.
RECURSIVE LatinEnd(_, _)
LatinEnd(runes, i) ==
    IF i < Len(runes) /\ ~IsHan(runes[i + 1]) THEN LatinEnd(runes, i + 1)
    ELSE i

\* unicode.ToUpper of one character.
UpperChar(c) ==
    CASE c = "a" -> "A" [] c = "b" -> "B" [] c = "c" -> "C" [] c = "e" -> "E"
      [] c = "m" -> "M" [] c = "o" -> "O" [] c = "t" -> "T" [] c = "z" -> "Z"
      [] c = "u0" -> "U0"
      [] OTHER -> c

\* strings.ToUpper(p[:1]) + strings.ToLower(strings.TrimSpace(p[1:])) for a
\* p that is not empty.  p[:1] is the first byte of p: when the first
\* character is longer, neither that byte nor the bytes left at the head of
\* p[1:] are valid UTF-8, and ToUpper and ToLower write U+FFFD for each.
Capitalise(p) ==
    IF Utf8Len(p[1]) = 1
      THEN <<UpperChar(p[1])>> \o ToLower(TrimSpace(Tail(p)))
      ELSE <<"FFFD">> \o Repeat("FFFD", Utf8Len(p[1]) - 1)
           \o ToLower(TrimRight(Tail(p)))

\* The pinyin of the entries is short: a letter and a tone digit.
ScanEntry(trad, simp, pinyin) ==
    [Traditional |-> trad, Simplified |-> simp, Pinyin |-> pinyin,
     Meanings |-> <<<<"m">>>>]

\* The entries of the indexes HanziToPinyin searches: a word of two
\* characters, its first character twice with two readings, its second
\* character, and a word that ends in a Latin letter.
ScanEntries ==
    {ScanEntry(<<"zhong", "wen">>, <<"zhong", "wen">>, <<"Z", "1", " ", "w", "2">>),
     ScanEntry(<<"zhong">>, <<"zhong">>, <<"z", "1">>),
     ScanEntry(<<"wen">>, <<"zhong">>, <<"z", "4">>),
     ScanEntry(<<"zhong", "a">>, <<"zhong", "a">>, <<"z", "a">>)}

\* The characters of the strings given to HanziToPinyin: two Han
\* characters, a Latin letter, a letter of two bytes, a hanzi symbol and
\* the space.
ScanAlphabet == {"zhong", "wen", "a", "u0", "fullq", " "}

\* No step of the scan taken yet.
NoStep == [kind |-> "none"]

ScanInit ==
    /\ LifeInit
    /\ \E e \in Strs(ScanEntries, ScanMaxIndex) :
       \E str \in Strs(ScanAlphabet, ScanMaxLen) :
         args = [e |-> e, s |-> str]
    /\ result = NoResult

\* HanziToPinyin up to its loop: the early exit, or the runes to scan.
ScanStart ==
    /\ result = NoResult
    /\ LET str == TrimSpace(args.s)
       IN  result' = IF ByteLen(str) = 0
                       THEN [done |-> TRUE, stage |-> "returned", runes |-> <<>>,
                             i |-> 0, p |-> <<>>, last |-> NoStep, out |-> <<>>]
                       ELSE [done |-> FALSE, stage |-> "scan",
                             runes |-> ConvertSymbols(str),
                             i |-> 0, p |-> <<>>, last |-> NoStep, out |-> <<>>]
    /\ UNCHANGED args

\* One pass of the loop at a character that is not Han: the run of such
\* characters is appended with a space.
ScanLatin ==
    /\ result # NoResult
    /\ result.stage = "scan"
    /\ result.i < Len(result.runes)
    /\ ~IsHan(result.runes[result.i + 1])
    /\ LET j == LatinEnd(result.runes, result.i)
       IN  result' = [result EXCEPT
                        !.i = j,
                        !.p = @ \o SubSeq(result.runes, result.i + 1, j) \o <<" ">>,
                        !.last = [kind |-> "latin", from |-> result.i, to |-> j]]
    /\ UNCHANGED args

\* One pass of the loop at a Han character: the longest combination found
\* gives its pinyin and a space, and without one the character is added
\* as it is.
ScanHan ==
    /\ result # NoResult
    /\ result.stage = "scan"
    /\ result.i < Len(result.runes)
    /\ IsHan(result.runes[result.i + 1])
    /\ LET i == result.i
           runes == result.runes
           j == LongestMatch(args.e, runes, i, Len(runes))
           k == GetByHanzi(args.e, SubSeq(runes, i + 1, j))
       IN  result' = IF j # 0
                       THEN [result EXCEPT
                               !.i = j,
                               !.p = @ \o args.e[k].Pinyin \o <<" ">>,
                               !.last = [kind |-> "entry", from |-> i, to |-> j,
                                         emit |-> args.e[k].Pinyin]]
                       ELSE [result EXCEPT
                               !.i = i + 1,
                               !.p = @ \o <<runes[i + 1]>>,
                               !.last = [kind |-> "single", from |-> i,
                                         to |-> i + 1, emit |-> <<runes[i + 1]>>]]
    /\ UNCHANGED args

\* The return of HanziToPinyin after the loop.
ScanReturn ==
    /\ result # NoResult
    /\ result.stage = "scan"
    /\ result.i >= Len(result.runes)
    /\ result' = [result EXCEPT !.done = TRUE, !.stage = "returned",
                                !.out = Capitalise(result.p)]
    /\ UNCHANGED args

ScanNext ==
    (ScanStart \/ ScanLatin \/ ScanHan \/ ScanReturn) /\ UNCHANGED lifeVars

ScanSpec == ScanInit /\ [][ScanNext]_vars

\* ------------------------------------------------------------- claims

\* C1: population failure is sticky and never retried: once a population
\* attempt has failed, no later call starts another fetch, and every Err()
\* that returns afterwards returns that same first failure.
C1_FailureStickyNoRetry ==
    /\ ~retried
    /\ \A p \in Callers :
         (pc[p] = "body" /\ firstErr # "nil") => err = firstErr

\* C2: readiness gates every read: whenever a method has passed lazyLoad and
\* reads the entry list, the metadata or the header (or Save opens its
\* file), the readiness flag is set, on the success and on the failure path.
C2_ReadinessGatesReads ==
    \A p \in Callers : pc[p] \in {"body", "probe"} => ready

\* C3: singleton construction is race-free: for any number of concurrent and
\* later calls of New, exactly one Dict is constructed, exactly one
\* background population task is started, and every call returns that
\* instance.
C3_SingletonRaceFree ==
    /\ nConstructed <= 1
    /\ nTasks <= 1
    /\ (loadOnce = "done") => (nConstructed = 1 /\ nTasks = 1 /\ instance = 1)
    /\ \A p \in Callers : got[p] # 0 => got[p] = instance

\* C3 witness: two callers raced in New, one constructed, both hold the
\* same instance.
C3_Witness ==
    \E p, q \in Callers :
        /\ p # q
        /\ got[p] = 1 /\ got[q] = 1
        /\ nConstructed = 1 /\ nTasks = 1

\* A caller is inside New or inside a method.
InCall(p) == pc[p] \notin {"start", "have"}

\* C4: no reader is blocked forever: every call of New or of a method,
\* HanziToPinyin with its nested GetByHanzi probes included, eventually
\* returns, whether population succeeds or fails.
C4_NoReaderBlockedForever ==
    \A p \in Callers : InCall(p) ~> (pc[p] = "have")

\* C4 witness: a HanziToPinyin call waits for the mutex inside a GetByHanzi
\* probe while another goroutine holds it for a population attempt that
\* follows a failed one.
C4_Witness ==
    \E p \in Callers : \E q \in Procs :
        /\ p # q
        /\ pc[p] = "lock" /\ probes[p] > 0
        /\ mutex = q /\ pc[q] \in {"download", "parse"}
        /\ firstErr # "nil"

\* The strings one insertion, deletion or substitution of a single
\* character away from s, over the alphabet, of at most n characters.
OneEdit(s, alphabet, n) ==
    {SubSeq(s, 1, k - 1) \o SubSeq(s, k + 1, Len(s)) : k \in 1..Len(s)}
    \cup {SubSeq(s, 1, k - 1) \o <<c>> \o SubSeq(s, k + 1, Len(s)) :
            k \in 1..Len(s), c \in alphabet}
    \cup (IF Len(s) < n
            THEN {SubSeq(s, 1, k) \o <<c>> \o SubSeq(s, k + 1, Len(s)) :
                    k \in 0..Len(s), c \in alphabet}
            ELSE {})

\* The least number of edits that turn a string of the set reached into b,
\* the set holding the strings k edits from the start.
RECURSIVE MinEditsFrom(_, _, _, _, _)
MinEditsFrom(reached, k, b, alphabet, n) ==
    IF b \in reached THEN k
    ELSE MinEditsFrom(reached \cup UNION {OneEdit(s, alphabet, n) : s \in reached},
                      k + 1, b, alphabet, n)

\* The minimum number of single-character insertions, deletions and
\* substitutions that transform a into b (no shortest edit sequence passes
\* through a string longer than both).
MinEdits(a, b) == MinEditsFrom({a}, 0, b, LevAlphabet, LevMaxLen)

\* C9: levenshtein(a, b) is the minimum number of single-code-point
\* insertions, deletions and substitutions that transform a into b; it is
\* symmetric, 0 exactly when a = b, and satisfies the triangle inequality.
C9_LevenshteinIsEditDistance ==
    result.done =>
        /\ result.sd = MinEdits(args.src, args.dst)
        /\ result.sd = result.ds
        /\ (result.sd = 0) <=> (args.src = args.dst)
        /\ result.sd <= result.sm + result.md

\* C9 witness: levenshtein ran on strings it swaps by byte length although
\* the first has fewer characters, and a substitution, an insertion and a
\* deletion are all needed somewhere among the three.
C9_Witness ==
    /\ result.done
    /\ ByteLen(args.src) > ByteLen(args.dst)
    /\ Len(args.src) < Len(args.dst)
    /\ result.sd = 2
    /\ result.sm = 1

\* The letters of the tone codec's alphabet.
ToneLetters == {"a", "u", "r", "n"}

\* w is a numbered-pinyin token: letters (ü as the character or spelled
\* u:) and then one tone digit of the given set.
IsNumberedToken(w, digits) ==
    /\ Len(w) >= 2
    /\ w[Len(w)] \in digits
    /\ \A k \in 1..(Len(w) - 1) :
         \/ w[k] \in ToneLetters \cup {"u0"}
         \/ (w[k] = ":" /\ k > 1 /\ w[k - 1] = "u")

MarkSurvives(w) ==
    LET u == ReplaceUColon(w)
        i == guessToneIndex(u)
    IN  i >= 0 => (u[i + 1] # "r" /\ \A k \in (i + 2)..Len(u) : u[k] # "u0")

C8_ToneNeverAborts ==
    result.done =>
        /\ ~result.tones.panic
        /\ (/\ IndexAny(args.s, {" ", ":"}) < 0
            /\ (guessToneIndex(args.s) < 0 \/ IndexAny(args.s, toneNums) < 0))
           => result.tones.out = args.s

\* The lines of the text that are not comments.
EntryLines(text) ==
    LET lines == ScanLines(text)
    IN  {k \in 1..Len(lines) : ~HasPrefix(lines[k], <<"#">>)}

\* The count the last "#! entries=" header of the text declares, 0 without
\* such a header.
DeclaredEntries(text) ==
    LET lines == ScanLines(text)
        prefix == <<"#", "!", " ", "e", "n", "t", "r", "i", "e", "s", "=">>
        decl == {k \in 1..Len(lines) : HasPrefix(lines[k], prefix)}
        last == CHOOSE k \in decl : \A j \in decl : j <= k
    IN  IF decl = {} THEN 0
        ELSE Atoi(SubSeq(lines[last], Len(prefix) + 1, Len(lines[last]))).n

C6_SaveParseRoundTrip ==
    (result.done /\ result.stage = "loaded") =>
        /\ result.loaded.kind = "dict"
        /\ result.loaded.md = result.dict.md
        /\ result.loaded.e = result.dict.e

\* The positions GetByPinyin returned.
Returned10 == {result.out[k] : k \in 1..Len(result.out)}

\* The query in numbered form, and normalised.
Query10 == PinyinToneNums(args.query)
NormQuery10 == RemoveSpaces(ToLower(Query10))

\* The stored pinyin of entry k, lower-cased and without spaces.
NormStored10(k) == RemoveSpaces(ToLower(args.e[k].Pinyin))

\* C10: a query without a digit matches exactly the entries whose stored
\* pinyin with the digits removed equals it; a query with a digit matches
\* only entries whose stored pinyin, digits included, equals it (all of
\* them when it carries a tone digit 1 to 5, none when its digits are all
\* out of range); both sides lower-cased and without spaces.
C10_PinyinToneInsensitive ==
    result.done =>
        /\ Len(result.out) = Cardinality(Returned10)
        /\ IF IndexAny(Query10, Digits) < 0
             THEN Returned10 = {k \in 1..Len(args.e) :
                                  RemoveDigits(NormStored10(k)) = NormQuery10}
             ELSE /\ Returned10 \subseteq {k \in 1..Len(args.e) :
                                              NormStored10(k) = NormQuery10}
                  /\ IndexAny(Query10, toneNums) >= 0 =>
                       Returned10 = {k \in 1..Len(args.e) :
                                       NormStored10(k) = NormQuery10}
                  /\ IndexAny(Query10, toneNums) < 0 => Returned10 = {}

\* The lower-cased query of GetByMeaning.
Query11 == ToLower(args.query)

\* The meanings of entry k that, lower-cased, are contained in the query.
Contained11(k) ==
    {j \in 1..Len(args.e[k].Meanings) :
        Contains(Query11, ToLower(args.e[k].Meanings[j]))}

\* The distance between the query and meaning j of entry k.
Dist11(k, j) == levenshtein(Query11, ToLower(args.e[k].Meanings[j]))

\* The first element of a non-empty set of positions.
First11(set) == CHOOSE j \in set : \A i \in set : j <= i

\* The entries GetByMeaning returned.
Returned11 == {result.out[k] : k \in 1..Len(result.out)}

\* C11 as claimed: only the first meaning contained in the query counts;
\* the entry is returned, once, exactly when that meaning is at most MaxLD
\* from the query, and the entries come ranked by that distance.
C11_FirstMeaningDecides ==
    result.done =>
        /\ Len(result.out) = Cardinality(Returned11)
        /\ Returned11 =
             {k \in 1..Len(args.e) :
                /\ Contained11(k) # {}
                /\ Dist11(k, First11(Contained11(k))) <= MaxLD}
        /\ \A a, b \in 1..Len(result.out) :
             a < b => Dist11(result.out[a], First11(Contained11(result.out[a])))
                      <= Dist11(result.out[b], First11(Contained11(result.out[b])))

\* The meanings of entry k contained in the query and at most MaxLD from it.
Near11(k) == {j \in Contained11(k) : Dist11(k, j) <= MaxLD}

\* C11 amended: a contained meaning that is too far is passed over and the
\* later meanings are still tried; an entry is returned, once, exactly when
\* one of its meanings is contained in the query and at most MaxLD from it,
\* ranked by the distance of the first such meaning, entries of equal
\* distance in index order (for at most MaxResults such entries).
C11_FirstNearMeaningDecides ==
    result.done =>
        /\ Len(result.out) = Cardinality(Returned11)
        /\ Returned11 = {k \in 1..Len(args.e) : Near11(k) # {}}
        /\ \A a, b \in 1..Len(result.out) :
             a < b =>
               LET da == Dist11(result.out[a], First11(Near11(result.out[a])))
                   db == Dist11(result.out[b], First11(Near11(result.out[b])))
               IN  da < db \/ (da = db /\ result.out[a] < result.out[b])

\* C11 witness: the first contained meaning of the second entry was too far
\* from the query, a later meaning put it into the result, and it ranks
\* before the first entry.
C11_Witness ==
    /\ result.done
    /\ Len(args.e) = 2
    /\ result.out = <<2, 1>>
    /\ Dist11(2, First11(Contained11(2))) > MaxLD

\* C12 as claimed: GetAllByHanzi, GetByPinyin and GetByMeaning each return
\* at most MaxResults entries.
C12_MaxResultsBoundsEveryMethod ==
    result.done => Len(result.out) <= MaxResults

\* The ends j of the substrings runes[i:j] that, after Trim, equal the
\* traditional or simplified field of an entry.
FieldMatches13(i, Trim(_)) ==
    {j \in (i + 1)..Len(result.runes) :
        \E k \in 1..Len(args.e) :
            \/ args.e[k].Traditional = Trim(SubSeq(result.runes, i + 1, j))
            \/ args.e[k].Simplified = Trim(SubSeq(result.runes, i + 1, j))}

\* The pinyin of the first entry in index order with the field w.
FirstPinyin13(w) ==
    LET ks == {k \in 1..Len(args.e) :
                  args.e[k].Traditional = w \/ args.e[k].Simplified = w}
    IN  args.e[CHOOSE k \in ks : \A m \in ks : k <= m].Pinyin

\* The pass of the loop at a Han position consumed the longest substring
\* that matches an entry after Trim and emitted the pinyin of the first
\* such entry, or emitted the single character when no substring matches.
Greedy13(Trim(_)) ==
    (result # NoResult /\ result.last.kind \in {"entry", "single"}) =>
        LET i == result.last.from
            ends == FieldMatches13(i, Trim)
            longest == CHOOSE j \in ends : \A m \in ends : m <= j
        IN  IF ends # {}
              THEN /\ result.last.kind = "entry"
                   /\ result.last.to = longest
                   /\ result.i = longest
                   /\ result.last.emit =
                        FirstPinyin13(Trim(SubSeq(result.runes, i + 1, longest)))
              ELSE /\ result.last.kind = "single"
                   /\ result.i = i + 1
                   /\ result.last.emit = <<result.runes[i + 1]>>

\* The substring as it is.
Exactly13(w) == w

\* C13 as claimed: at every Han position the scan consumes the longest
\* substring that exactly equals the traditional or simplified field of an
\* entry, emits the pinyin of the first such entry and resumes after it;
\* only when no substring matches is the single character emitted.
C13_GreedyLongestExact == Greedy13(Exactly13)

\* C13 amended: the same with the substring compared after its trailing
\* white space is removed (GetByHanzi trims what it is given).
C13_GreedyLongestTrimmed == Greedy13(TrimSpace)

\* C13 witness: the word of two characters was taken although its first
\* character alone is an entry that stands earlier in the index.
C13_Witness ==
    /\ result # NoResult
    /\ result.last.kind = "entry"
    /\ result.last.to - result.last.from = 2
    /\ Len(args.e) = 2
    /\ args.e[1].Traditional = <<"zhong">>
    /\ result.last.emit = args.e[2].Pinyin

\* C17 as claimed: the result of HanziToPinyin is the output of the scan
\* with its first character in upper case and the rest in lower case and
\* trimmed, whatever the first character is.
C17_CapitaliseByCharacter ==
    (result # NoResult /\ result.done /\ result.p # <<>>) =>
        result.out = <<UpperChar(result.p[1])>> \o ToLower(TrimSpace(Tail(result.p)))

\* The entry lines of the text, in order.
Lines14 ==
    LET lines == ScanLines(args.text)
    IN  {lines[k] : k \in {j \in 1..Len(lines) : ~HasPrefix(lines[j], <<"#">>)}}

\* The line has a "[" with a "]" after it.
HasPair14(line) ==
    \E a, b \in 1..Len(line) : a < b /\ line[a] = "[" /\ line[b] = "]"

\* The white-space separated tokens of the text before the first "[".
Hanzi14(line) ==
    LET off == Index(line, "[")
    IN  Tokens(IF off < 0 THEN line ELSE SubSeq(line, 1, off), <<>>)

\* C14 as claimed: an entry line without a bracket pair, or with other than
\* two tokens before the "[", makes Entry.Unmarshal return an error and
\* Parse return an error and no Dict; two tokens become the traditional
\* and simplified fields.
C14_MalformedEntryIsError ==
    result.done =>
        \A line \in Lines14 :
            /\ (~HasPair14(line) \/ Len(Hanzi14(line)) # 2) =>
                 (Unmarshal(line).kind = "error" /\ result.dict.kind # "dict")
            /\ (Unmarshal(line).kind = "entry" /\ Len(Hanzi14(line)) = 2) =>
                 /\ Unmarshal(line).entry.Traditional = Hanzi14(line)[1]
                 /\ Unmarshal(line).entry.Simplified = Hanzi14(line)[2]

\* C19 as claimed: Parse returns a Dict or an error for every text and
\* never aborts.
C19_ParseIsTotal ==
    result.done => result.dict.kind \in {"dict", "error"}

\* C15 as claimed: a ready Dict has no population error recorded, and a
\* Dict that has recorded one is never ready afterwards.
C15_ReadyExcludesError ==
    ready => (err = "nil" /\ firstErr = "nil")

\* C16: once d.ready is closed no step opens it or closes it again (it is
\* closed exactly once) and no step assigns d.e, d.md or d.header.
C16_FrozenAfterReady ==
    [][/\ ready => (ready' /\ closes' = closes /\ populated' = populated)
       /\ ready' => closes' = 1]_vars

\* C16 witness: the Dict was populated without a failure and every caller
\* has since passed lazyLoad into the body of a method.
C16_Witness ==
    /\ ready
    /\ firstErr = "nil"
    /\ \A p \in Callers : pc[p] = "body"

\* The positions of the tone digits 1 to 5 in token w.
ToneDigits18(w) == {k \in 1..Len(w) : w[k] \in toneNums}

\* Token w with the character at position k taken out.
Without18(w, k) == SubSeq(w, 1, k - 1) \o SubSeq(w, k + 1, Len(w))

\* Token w is one the claim speaks of: it is written without "u:" and has
\* no candidate vowel, or no tone digit, or one tone digit that stands
\* after a letter.
InCase18(w) ==
    /\ \A k \in 1..Len(w) : w[k] # ":"
    /\ \/ guessToneIndex(w) < 0
       \/ ToneDigits18(w) = {}
       \/ /\ Cardinality(ToneDigits18(w)) = 1
          /\ 1 \notin ToneDigits18(w)

\* What the claim says token w becomes: the digit taken out and the first
\* occurrence of the highest-priority vowel in its form for the tone.
Expected18(w) ==
    IF guessToneIndex(w) < 0 \/ ToneDigits18(w) = {} THEN w
    ELSE LET k == CHOOSE d \in ToneDigits18(w) : TRUE
             bare == Without18(w, k)
             i == guessToneIndex(bare)
         IN  SubSeq(bare, 1, i)
             \o <<mapNumToTone(bare[i + 1])[DigitValue(w[k])]>>
             \o SubSeq(bare, i + 2, Len(bare))

\* C18 as claimed: PinyinTones turns every token with a candidate vowel
\* and one tone digit, at its end or inline after a letter, into the token
\* without the digit and with the first occurrence of its highest-priority
\* vowel in the form for that tone (unchanged for 5), and leaves a token
\* without a candidate vowel or without a tone digit as it is.
C18_TonePlacement ==
    LET ws == Split(args.s, " ")
    IN  (result.done /\ \A k \in 1..Len(ws) : InCase18(ws[k])) =>
            /\ ~result.tones.panic
            /\ result.tones.out
                 = TrimSpace(Join([k \in 1..Len(ws) |-> Expected18(ws[k])],
                                  <<" ">>))
====
